---- MODULE Spec2Model ----
(***************************************************************************)
(* Model of ffmpeg_progress.py: class ffmpegThread (the supervisor of one  *)
(* ffmpeg subprocess), the subprocess as its environment, and a caller     *)
(* that queries the properties `exception` and `input_duration`.           *)
(*                                                                         *)
(* Text is modelled as sequences of string tokens.  A progress line is     *)
(* what readline().strip() returns: << >> for a blank line or for end of   *)
(* file, <<"key", "=", "value">> for a key/value line, <<"garbage">> for   *)
(* a line without separator.  A diagnostic line is a record whose field    *)
(* dur is the text captured by duration_re (<< >> when the line does not   *)
(* match).  Times are kept in integers: out_time_ms in microseconds, the   *)
(* input duration in hundredths of a second, the ratio in hundredths.      *)
(***************************************************************************)
EXTENDS Integers, Sequences, FiniteSets, TLC

\* ---------------------------------------------------------------- bounds
MaxOut == 4        \* lines the engine writes to its primary output
MaxErr == 2        \* lines the engine writes to its diagnostic output
PipeCap == 1       \* lines a pipe holds before a write blocks
MaxSpin == 1       \* counted empty reads of the duration loop
MaxExit == 1       \* largest exit status the engine returns

\* -------------------------------------------------------------- alphabet
KVLine(k, v) == <<k, "=", v>>

TimeValues == {"-500000", "0", "500000"}

OutLines ==
    {KVLine("out_time_ms", v) : v \in TimeValues}
      \cup {KVLine("progress", v) : v \in {"continue", "end"}}
      \cup {<< >>, <<"garbage">>}

DurText(h, m, s, c) == <<h, ":", m, ":", s, ".", c>>

Chatter == [dur |-> << >>]

ErrLines ==
    {Chatter,
     [dur |-> DurText("00", "00", "01", "00")],
     [dur |-> DurText("00", "00", "00", "00")]}

\* Texts that duration_re captures ([0-9:\.]+ before a comma): the marker
\* H:MM:SS.cc over a few field values, and texts of another shape.
HourFields == {"00", "01", "100"}
SixtyFields == {"00", "01", "59"}
CentiFields == {"00", "01", "50"}

MarkerTexts ==
    {DurText(h, m, s, c) : h \in HourFields, m \in SixtyFields,
                           s \in SixtyFields, c \in CentiFields}

OtherTexts ==
    {<<"00", ":", "01">>,
     <<"01", ".", "00">>,
     <<"00", ":", "00", ":", "01", ".", "00", ".", "00">>}

\* Python values that may be missing: Absent is an attribute that was never
\* assigned, None is None, Some(x) is the value x.
Absent == << >>
None == <<{}>>
Some(x) == <<{x}>>
Get(v) == CHOOSE x \in v[1] : TRUE
Popen == Some("Popen")

VARIABLES
    engine,        \* "unstarted", "running", "exited"
    exitStatus,    \* the status the engine exited with, None before
    outOpen,       \* the engine holds the write end of stdout open
    errOpen,       \* the engine holds the write end of stderr open
    writing,       \* channel the engine is blocked writing to, or "none"
    outWritten,    \* every line written to stdout so far
    errWritten,    \* every line written to stderr so far
    outRead,       \* number of stdout lines the supervisor has consumed
    errRead,       \* number of stderr lines the supervisor has consumed
    pc,            \* position of the thread running ffmpegThread.run
    ffmpeg,        \* self.ffmpeg: Absent, Popen or None
    info,          \* the mapping accumulated by run for the open block
    inputDuration, \* self._input_duration, None until resolved
    exitcode,      \* self.exitcode: Absent until line 111 ran
    stderrBuf,     \* self.stderr: Absent until line 112 returned
    drained,       \* bytes stderr.read() has collected so far
    calls,         \* callbacks invoked so far, in order
    spins,         \* empty reads made by the duration loop (capped)
    query,         \* outcome of the caller's latest property access
    callbacks,     \* which of progress_f and info_f the supervisor was given
    cli            \* the command line front end: main thread and printer

engineVars == <<engine, exitStatus, outOpen, errOpen, writing,
                outWritten, errWritten>>
threadVars == <<outRead, errRead, pc, ffmpeg, info, inputDuration,
                exitcode, stderrBuf, drained, calls, spins>>
cliVars == <<callbacks, cli>>
vars == <<engine, exitStatus, outOpen, errOpen, writing, outWritten,
          errWritten, outRead, errRead, pc, ffmpeg, info, inputDuration,
          exitcode, stderrBuf, drained, calls, spins, query, callbacks,
          cli>>

\* ------------------------------------------------------ parsing helpers
\* Index of the first occurrence of tok in seq, 0 when there is none.
RECURSIVE IndexFrom(_, _, _)
IndexFrom(seq, tok, i) ==
    IF i > Len(seq) THEN 0
    ELSE IF seq[i] = tok THEN i
    ELSE IndexFrom(seq, tok, i + 1)

\* str.split(sep): the pieces between the separators.
RECURSIVE Split(_, _)
Split(seq, sep) ==
    LET i == IndexFrom(seq, sep, 1)
    IN IF i = 0 THEN <<seq>>
       ELSE <<SubSeq(seq, 1, i - 1)>>
              \o Split(SubSeq(seq, i + 1, Len(seq)), sep)

\* str.split("=", 1): at most one split, at the first separator.
SplitOnce(line) ==
    LET i == IndexFrom(line, "=", 1)
    IN IF i = 0 THEN <<line>>
       ELSE <<SubSeq(line, 1, i - 1), SubSeq(line, i + 1, Len(line))>>

KeyProgress == <<"progress">>
KeyOutTime == <<"out_time_ms">>
KeyDone == <<"done">>

\* float() of a progress value: defined on numeric text only.
IsNumber(text) == text \in {<<"-500000">>, <<"0">>, <<"500000">>}
Float(text) ==
    CASE text = <<"-500000">> -> 0 - 500000
      [] text = <<"0">> -> 0
      [] text = <<"500000">> -> 500000

\* float() of one field of the duration text, and of "0." + partial in
\* hundredths.
IsDigits(text) ==
    text \in {<<"00">>, <<"01">>, <<"50">>, <<"59">>, <<"100">>}
Digits(text) ==
    CASE text = <<"00">> -> 0
      [] text = <<"01">> -> 1
      [] text = <<"50">> -> 50
      [] text = <<"59">> -> 59
      [] text = <<"100">> -> 100
Hundredths(text) ==
    CASE text = << >> -> 0
      [] text = <<"00">> -> 0
      [] text = <<"01">> -> 1
      [] text = <<"50">> -> 50
      [] text = <<"59">> -> 59
      [] text = <<"100">> -> 10

\* duration_re.search(line): the captured text, << >> without a match.
DurationMatch(line) == line.dur
Matches(line) == DurationMatch(line) # << >>

\* Lines 71-76 succeed: both unpackings get the number of pieces they
\* name and every float() gets numeric text.
DurationParses(text) ==
    LET parts == Split(text, ".")
    IN /\ Len(parts) = 2
       /\ parts[2] = << >> \/ IsDigits(parts[2])
       /\ LET hms == Split(parts[1], ":")
          IN /\ Len(hms) = 3
             /\ \A i \in 1..3 : IsDigits(hms[i])

\* Lines 71-76, in hundredths of a second.
DurationValue(text) ==
    LET parts == Split(text, ".")
        hms == Split(parts[1], ":")
    IN Digits(hms[1]) * 360000 + Digits(hms[2]) * 6000
         + Digits(hms[3]) * 100 + Hundredths(parts[2])

\* Lines 85-86: out_time_ms / 1000000 / input_duration, in hundredths.
Micro == 1000000
OutTime(us) == (us * 100) \div Micro
Ratio(us, duration) == (OutTime(us) * 100) \div duration

\* An assignment that keeps the value a key already has.
PutKeepFirst(map, key, value) ==
    [k \in DOMAIN map \cup {key} |->
        IF k \in DOMAIN map THEN map[k] ELSE value]

\* info[key] = value
Put(map, key, value) ==
    [k \in DOMAIN map \cup {key} |-> IF k = key THEN value ELSE map[k]]

\* Number of block terminators among lines.
RECURSIVE Terminators(_)
Terminators(lines) ==
    IF lines = << >> THEN 0
    ELSE (IF SplitOnce(lines[Len(lines)])[1] = KeyProgress
             /\ Len(SplitOnce(lines[Len(lines)])) = 2 THEN 1 ELSE 0)
           + Terminators(SubSeq(lines, 1, Len(lines) - 1))

EmptyInfo == [k \in {} |-> ""]

\* What a property access by the caller gave.
Raise(op, exc) ==
    [op |-> op, raised |-> exc, duration |-> None, error |-> None]
ReturnNone(op) ==
    [op |-> op, raised |-> "", duration |-> None, error |-> None]
NoQuery == ReturnNone("")

\* The front end is not in use: the supervisor is driven by a caller.
NoCli == [main |-> "none", printer |-> "none", taken |-> 0,
          printed |-> << >>, exit |-> None]


Init ==
    /\ engine = "unstarted"
    /\ exitStatus = None
    /\ outOpen = FALSE
    /\ errOpen = FALSE
    /\ writing = "none"
    /\ outWritten = << >>
    /\ errWritten = << >>
    /\ outRead = 0
    /\ errRead = 0
    /\ pc = "init"
    /\ ffmpeg = Absent
    /\ info = EmptyInfo
    /\ inputDuration = None
    /\ exitcode = Absent
    /\ stderrBuf = Absent
    /\ drained = << >>
    /\ calls = << >>
    /\ spins = 0
    /\ query = NoQuery
    /\ callbacks = [progress_f |-> TRUE, info_f |-> TRUE]
    /\ cli = NoCli

\* Thread.start() enters run(): Popen spawns the engine with both output
\* channels piped.  In the front end this is line 156, after which the
\* main thread goes on to join the thread.
Start ==
    /\ pc = "init"
    /\ cli.main \in {"none", "spawn"}
    /\ cli' = IF cli.main = "spawn"
              THEN [cli EXCEPT !.main = "join_ffmpeg"] ELSE cli
    /\ UNCHANGED callbacks
    /\ pc' = "read"
    /\ ffmpeg' = Popen
    /\ engine' = "running"
    /\ outOpen' = TRUE
    /\ errOpen' = TRUE
    /\ UNCHANGED <<exitStatus, writing, outWritten, errWritten, outRead,
                   errRead, info, inputDuration, exitcode, stderrBuf,
                   drained, calls, spins, query>>

\* ------------------------------------------------------------ the engine
OutPipe == SubSeq(outWritten, outRead + 1, Len(outWritten))
ErrPipe == SubSeq(errWritten, errRead + 1, Len(errWritten))

Written(ch) == IF ch = "out" THEN outWritten ELSE errWritten
PipeLen(ch) == IF ch = "out" THEN Len(OutPipe) ELSE Len(ErrPipe)
IsOpen(ch) == IF ch = "out" THEN outOpen ELSE errOpen
MaxLines(ch) == IF ch = "out" THEN MaxOut ELSE MaxErr
Other(ch) == IF ch = "out" THEN "err" ELSE "out"

\* The engine enters write(2) on a pipe that is full: it stays in that call
\* until the reader makes room.
EngineBlock(ch) ==
    /\ engine = "running"
    /\ writing = "none"
    /\ IsOpen(ch)
    /\ Len(Written(ch)) < MaxLines(ch)
    /\ PipeLen(ch) >= PipeCap
    /\ writing' = ch
    /\ UNCHANGED <<engine, exitStatus, outOpen, errOpen, outWritten,
                   errWritten>>
    /\ UNCHANGED threadVars
    /\ UNCHANGED query
    /\ UNCHANGED cliVars

EngineWriteOut(line) ==
    /\ engine = "running"
    /\ writing \in {"none", "out"}
    /\ outOpen
    /\ Len(outWritten) < MaxOut
    /\ Len(OutPipe) < PipeCap
    /\ outWritten' = Append(outWritten, line)
    /\ writing' = "none"
    /\ UNCHANGED <<engine, exitStatus, outOpen, errOpen, errWritten>>
    /\ UNCHANGED threadVars
    /\ UNCHANGED query
    /\ UNCHANGED cliVars

EngineWriteErr(line) ==
    /\ engine = "running"
    /\ writing \in {"none", "err"}
    /\ errOpen
    /\ Len(errWritten) < MaxErr
    /\ Len(ErrPipe) < PipeCap
    /\ errWritten' = Append(errWritten, line)
    /\ writing' = "none"
    /\ UNCHANGED <<engine, exitStatus, outOpen, errOpen, outWritten>>
    /\ UNCHANGED threadVars
    /\ UNCHANGED query
    /\ UNCHANGED cliVars

\* The engine closes one of its output channels while it keeps running.
EngineCloseOut ==
    /\ engine = "running"
    /\ writing = "none"
    /\ outOpen
    /\ outOpen' = FALSE
    /\ UNCHANGED <<engine, exitStatus, errOpen, writing, outWritten,
                   errWritten>>
    /\ UNCHANGED threadVars
    /\ UNCHANGED query
    /\ UNCHANGED cliVars

EngineCloseErr ==
    /\ engine = "running"
    /\ writing = "none"
    /\ errOpen
    /\ errOpen' = FALSE
    /\ UNCHANGED <<engine, exitStatus, outOpen, writing, outWritten,
                   errWritten>>
    /\ UNCHANGED threadVars
    /\ UNCHANGED query
    /\ UNCHANGED cliVars

\* The engine process ends (by itself or by a signal): the kernel closes
\* whatever it still holds open; what is in the pipes stays readable.
EngineExit(status) ==
    /\ engine = "running"
    /\ engine' = "exited"
    /\ exitStatus' = Some(status)
    /\ outOpen' = FALSE
    /\ errOpen' = FALSE
    /\ writing' = "none"
    /\ UNCHANGED <<outWritten, errWritten>>
    /\ UNCHANGED threadVars
    /\ UNCHANGED query
    /\ UNCHANGED cliVars

\* ------------------------------------------------- the thread in run()
Crashes == {"ValueError", "KeyError", "ZeroDivisionError"}

\* stdout.readline() returns: a line is there, or the write end is closed.
OutReady == Len(OutPipe) > 0 \/ ~outOpen
\* readline().strip(): the next line, or empty text at end of file.
OutLine == IF Len(OutPipe) > 0 THEN OutPipe[1] ELSE << >>
OutTaken == IF Len(OutPipe) > 0 THEN outRead + 1 ELSE outRead

ErrReady == Len(ErrPipe) > 0 \/ ~errOpen

\* Ordinal on the channel of the block closed by the n-th line.
BlockNo(n) == Terminators(SubSeq(outWritten, 1, n))

\* indicate_progress with the new calls put in front of the earlier ones.
IndicateProgressInFront(log, block, done, map) ==
    <<[f |-> "progress", block |-> block, ratio |-> done,
       map |-> EmptyInfo],
      [f |-> "info", block |-> block, ratio |-> 0 - 1,
       map |-> map]>> \o log

\* indicate_progress calling info_f before progress_f.
IndicateProgressInfoFirst(log, block, done, map) ==
    log \o <<[f |-> "info", block |-> block, ratio |-> 0 - 1,
              map |-> map],
             [f |-> "progress", block |-> block, ratio |-> done,
              map |-> EmptyInfo]>>

\* indicate_progress(done, info): progress_f first, then info_f, each
\* only when the supervisor was given it.
IndicateProgress(log, block, done, map) ==
    log \o (IF callbacks.progress_f
            THEN <<[f |-> "progress", block |-> block, ratio |-> done,
                    map |-> EmptyInfo]>>
            ELSE << >>)
        \o (IF callbacks.info_f
            THEN <<[f |-> "info", block |-> block, ratio |-> 0 - 1,
                    map |-> map]>>
            ELSE << >>)

\* Line 84 with >= in place of >.
MeaningfulOrZero(map) == Float(map[KeyOutTime]) >= 0

\* Line 84: the block carries a time that counts.
Meaningful(map) == Float(map[KeyOutTime]) > 0

\* The end of the loop reporting the pairs it still holds.
ReadClosedDelivering ==
    /\ pc = "read"
    /\ OutReady
    /\ OutLine = << >>
    /\ outRead' = OutTaken
    /\ pc' = "poll"
    /\ calls' = IF DOMAIN info = {} THEN calls
                ELSE calls \o <<[f |-> "info", block |-> BlockNo(outRead) + 1,
                                 ratio |-> 0 - 1, map |-> info]>>
    /\ UNCHANGED <<errRead, ffmpeg, info, inputDuration, exitcode,
                   stderrBuf, drained, spins>>
    /\ UNCHANGED engineVars
    /\ UNCHANGED query
    /\ UNCHANGED cliVars

\* Lines 98-100, 107-108: an empty line or end of file ends the loop.
ReadClosed ==
    /\ pc = "read"
    /\ OutReady
    /\ OutLine = << >>
    /\ outRead' = OutTaken
    /\ pc' = "poll"
    /\ UNCHANGED <<errRead, ffmpeg, info, inputDuration, exitcode,
                   stderrBuf, drained, calls, spins>>
    /\ UNCHANGED engineVars
    /\ UNCHANGED query
    /\ UNCHANGED cliVars

\* Line 102: unpacking the single piece of a line without "=" raises.
ReadNoSeparator ==
    /\ pc = "read"
    /\ OutReady
    /\ OutLine # << >>
    /\ Len(SplitOnce(OutLine)) # 2
    /\ outRead' = OutTaken
    /\ pc' = "ValueError"
    /\ UNCHANGED <<errRead, ffmpeg, info, inputDuration, exitcode,
                   stderrBuf, drained, calls, spins>>
    /\ UNCHANGED engineVars
    /\ UNCHANGED query
    /\ UNCHANGED cliVars

\* Lines 102-104: a key/value line that does not close the block.
ReadField ==
    /\ pc = "read"
    /\ OutReady
    /\ OutLine # << >>
    /\ Len(SplitOnce(OutLine)) = 2
    /\ SplitOnce(OutLine)[1] # KeyProgress
    /\ outRead' = OutTaken
    /\ info' = Put(info, SplitOnce(OutLine)[1], SplitOnce(OutLine)[2])
    /\ UNCHANGED <<errRead, pc, ffmpeg, inputDuration, exitcode,
                   stderrBuf, drained, calls, spins>>
    /\ UNCHANGED engineVars
    /\ UNCHANGED query
    /\ UNCHANGED cliVars

\* Lines 102-106 and process_info: the terminator line closes the block.
ReadTerminator ==
    /\ pc = "read"
    /\ OutReady
    /\ OutLine # << >>
    /\ Len(SplitOnce(OutLine)) = 2
    /\ SplitOnce(OutLine)[1] = KeyProgress
    /\ outRead' = OutTaken
    /\ LET block == Put(info, KeyProgress, SplitOnce(OutLine)[2])
       IN CASE KeyOutTime \notin DOMAIN block ->
                 \* line 83: info["out_time_ms"] is missing
                 /\ pc' = "KeyError"
                 /\ info' = block
                 /\ UNCHANGED calls
            [] KeyOutTime \in DOMAIN block
                 /\ ~IsNumber(block[KeyOutTime]) ->
                 /\ pc' = "ValueError"
                 /\ info' = block
                 /\ UNCHANGED calls
            [] KeyOutTime \in DOMAIN block
                 /\ IsNumber(block[KeyOutTime])
                 /\ ~Meaningful(block) ->
                 \* line 84 is false: nothing is reported, line 106
                 /\ pc' = "read"
                 /\ info' = EmptyInfo
                 /\ UNCHANGED calls
            [] KeyOutTime \in DOMAIN block
                 /\ IsNumber(block[KeyOutTime])
                 /\ Meaningful(block)
                 /\ inputDuration = None ->
                 \* line 86 enters the input_duration loop
                 /\ pc' = "duration"
                 /\ info' = block
                 /\ UNCHANGED calls
            [] KeyOutTime \in DOMAIN block
                 /\ IsNumber(block[KeyOutTime])
                 /\ Meaningful(block)
                 /\ inputDuration # None
                 /\ Get(inputDuration) = 0 ->
                 /\ pc' = "ZeroDivisionError"
                 /\ info' = block
                 /\ UNCHANGED calls
            [] OTHER ->
                 LET done == Ratio(Float(block[KeyOutTime]),
                                   Get(inputDuration))
                 IN /\ pc' = "read"
                    /\ info' = EmptyInfo
                    /\ calls' = IndicateProgress(calls, BlockNo(OutTaken),
                                                 done,
                                                 Put(block, KeyDone, done))
    /\ UNCHANGED <<errRead, ffmpeg, inputDuration, exitcode, stderrBuf,
                   drained, spins>>
    /\ UNCHANGED engineVars
    /\ UNCHANGED query
    /\ UNCHANGED cliVars

\* The loop passing over any diagnostic line, a duration line included.
DurationSkipAny ==
    /\ pc = "duration"
    /\ Len(ErrPipe) > 0
    /\ errRead' = errRead + 1
    /\ UNCHANGED <<outRead, pc, ffmpeg, info, inputDuration, exitcode,
                   stderrBuf, drained, calls, spins>>
    /\ UNCHANGED engineVars
    /\ UNCHANGED query
    /\ UNCHANGED cliVars

\* Lines 62-69: the loop reads a diagnostic line that has no duration.
DurationSkip ==
    /\ pc = "duration"
    /\ Len(ErrPipe) > 0
    /\ ~Matches(ErrPipe[1])
    /\ errRead' = errRead + 1
    /\ UNCHANGED <<outRead, pc, ffmpeg, info, inputDuration, exitcode,
                   stderrBuf, drained, calls, spins>>
    /\ UNCHANGED engineVars
    /\ UNCHANGED query
    /\ UNCHANGED cliVars

\* Lines 66-69 at end of file: readline() returns empty bytes, nothing
\* matches, and the loop goes round again.
DurationSpin ==
    /\ pc = "duration"
    /\ Len(ErrPipe) = 0
    /\ ~errOpen
    /\ spins' = IF spins < MaxSpin THEN spins + 1 ELSE spins
    /\ UNCHANGED <<outRead, errRead, pc, ffmpeg, info, inputDuration,
                   exitcode, stderrBuf, drained, calls>>
    /\ UNCHANGED engineVars
    /\ UNCHANGED query
    /\ UNCHANGED cliVars

\* Lines 66-77 and 86-87: the loop reads the duration line, the property
\* returns and process_info goes on to report the block.
DurationFound ==
    /\ pc = "duration"
    /\ Len(ErrPipe) > 0
    /\ Matches(ErrPipe[1])
    /\ errRead' = errRead + 1
    /\ LET text == DurationMatch(ErrPipe[1])
       IN IF ~DurationParses(text)
          THEN /\ pc' = "ValueError"
               /\ UNCHANGED <<info, inputDuration, calls>>
          ELSE /\ inputDuration' = Some(DurationValue(text))
               /\ IF DurationValue(text) = 0
                  THEN /\ pc' = "ZeroDivisionError"
                       /\ UNCHANGED <<info, calls>>
                  ELSE LET done == Ratio(Float(info[KeyOutTime]),
                                         DurationValue(text))
                       IN /\ pc' = "read"
                          /\ info' = EmptyInfo
                          /\ calls' = IndicateProgress(calls, BlockNo(outRead),
                                                 done,
                                                 Put(info, KeyDone, done))
    /\ UNCHANGED <<outRead, ffmpeg, exitcode, stderrBuf, drained, spins>>
    /\ UNCHANGED engineVars
    /\ UNCHANGED query
    /\ UNCHANGED cliVars

\* Popen.poll(): the exit status when the process has ended, else None.
Poll == IF engine = "exited" THEN exitStatus ELSE None

\* Line 111.
RecordExit ==
    /\ pc = "poll"
    /\ exitcode' = Poll
    /\ pc' = "drain"
    /\ UNCHANGED <<outRead, errRead, ffmpeg, info, inputDuration,
                   stderrBuf, drained, calls, spins>>
    /\ UNCHANGED engineVars
    /\ UNCHANGED query
    /\ UNCHANGED cliVars

\* Line 112, stderr.read(): takes what the pipe holds ...
DrainSome ==
    /\ pc = "drain"
    /\ Len(ErrPipe) > 0
    /\ drained' = drained \o ErrPipe
    /\ errRead' = Len(errWritten)
    /\ UNCHANGED <<outRead, pc, ffmpeg, info, inputDuration, exitcode,
                   stderrBuf, calls, spins>>
    /\ UNCHANGED engineVars
    /\ UNCHANGED query
    /\ UNCHANGED cliVars

\* ... and returns at end of file.
DrainEnd ==
    /\ pc = "drain"
    /\ Len(ErrPipe) = 0
    /\ ~errOpen
    /\ stderrBuf' = Some(drained)
    /\ pc' = "release"
    /\ UNCHANGED <<outRead, errRead, ffmpeg, info, inputDuration, exitcode,
                   drained, calls, spins>>
    /\ UNCHANGED engineVars
    /\ UNCHANGED query
    /\ UNCHANGED cliVars

\* Line 113.
Release ==
    /\ pc = "release"
    /\ ffmpeg' = None
    /\ pc' = "done"
    /\ UNCHANGED <<outRead, errRead, info, inputDuration, exitcode,
                   stderrBuf, drained, calls, spins>>
    /\ UNCHANGED engineVars
    /\ UNCHANGED query
    /\ UNCHANGED cliVars

\* ------------------------------------------------------------ the caller
\* `if self.exitcode:` -- None and 0 are false.
Truthy(code) == code # None /\ Get(code) # 0

\* FFMPEGError(exitcode, stderr)
FFMPEGError(code, text) == [exitcode |-> code, stderr |-> text]

\* The property `exception` answering None while there is no exit code.
ExceptionResultLenient ==
    IF exitcode = Absent THEN ReturnNone("exception")
    ELSE IF Truthy(exitcode)
         THEN IF stderrBuf = Absent
              THEN Raise("exception", "AttributeError")
              ELSE [op |-> "exception", raised |-> "", duration |-> None,
                    error |-> Some(FFMPEGError(Get(exitcode),
                                               Get(stderrBuf)))]
         ELSE ReturnNone("exception")

\* The property `exception`.
ExceptionResult ==
    IF exitcode = Absent THEN Raise("exception", "IOError")
    ELSE IF Truthy(exitcode)
         THEN IF stderrBuf = Absent
              THEN Raise("exception", "AttributeError")
              ELSE [op |-> "exception", raised |-> "", duration |-> None,
                    error |-> Some(FFMPEGError(Get(exitcode),
                                               Get(stderrBuf)))]
         ELSE ReturnNone("exception")

QueryException ==
    /\ cli.main = "none"
    /\ query' = ExceptionResult
    /\ UNCHANGED engineVars
    /\ UNCHANGED threadVars
    /\ UNCHANGED cliVars

\* The property `input_duration` answering 0 when the handle is gone.
DurationResultDefault ==
    IF inputDuration # None
    THEN [op |-> "input_duration", raised |-> "",
          duration |-> inputDuration, error |-> None]
    ELSE IF ffmpeg = Absent THEN Raise("input_duration", "AttributeError")
    ELSE [op |-> "input_duration", raised |-> "",
          duration |-> Some(0), error |-> None]

\* The property `input_duration`, read by the caller while the thread in
\* run() is not reading the diagnostic channel itself: the value once it
\* is resolved, an error when there is no subprocess handle.
DurationResult ==
    IF inputDuration # None
    THEN [op |-> "input_duration", raised |-> "",
          duration |-> inputDuration, error |-> None]
    ELSE IF ffmpeg = Absent THEN Raise("input_duration", "AttributeError")
    ELSE Raise("input_duration", "IOError")

QueryDuration ==
    /\ inputDuration # None \/ ffmpeg # Popen
    /\ cli.main = "none"
    /\ query' = DurationResult
    /\ UNCHANGED engineVars
    /\ UNCHANGED threadVars
    /\ UNCHANGED cliVars

\* ------------------------------------------------------- the front end
\* Lines 134-137: the queue that info_f fills; what the printer has not
\* taken yet is behind the first cli.taken entries.
IsQueued(call) == call.f = "info"
Queue == SelectSeq(calls, IsQueued)

\* Line 147: int(amount * 100.0), the ratio being kept in hundredths.
Percent(done) == (done * 100) \div 100

\* The program was started with arguments: nothing has run yet, and the
\* supervisor will be constructed with info_f only (line 155).
CliInit ==
    /\ engine = "unstarted"
    /\ exitStatus = None
    /\ outOpen = FALSE
    /\ errOpen = FALSE
    /\ writing = "none"
    /\ outWritten = << >>
    /\ errWritten = << >>
    /\ outRead = 0
    /\ errRead = 0
    /\ pc = "init"
    /\ ffmpeg = Absent
    /\ info = EmptyInfo
    /\ inputDuration = None
    /\ exitcode = Absent
    /\ stderrBuf = Absent
    /\ drained = << >>
    /\ calls = << >>
    /\ spins = 0
    /\ query = NoQuery
    /\ callbacks = [progress_f |-> FALSE, info_f |-> TRUE]
    /\ cli = [main |-> "init", printer |-> "idle", taken |-> 0,
              printed |-> << >>, exit |-> None]

\* Lines 150-152: the main thread starts the printer thread.
CliStartPrinter ==
    /\ cli.main = "init"
    /\ cli' = [cli EXCEPT !.main = "spawn", !.printer = "get"]
    /\ UNCHANGED engineVars
    /\ UNCHANGED threadVars
    /\ UNCHANGED <<query, callbacks>>

\* Lines 140-148: q.get() returns the next mapping; the printer returns on
\* progress=end, else it prints the percentage and sleeps.
CliPrinterGet ==
    /\ cli.printer = "get"
    /\ cli.taken < Len(Queue)
    /\ LET item == Queue[cli.taken + 1].map
       IN IF item[KeyProgress] = <<"end">>
          THEN cli' = [cli EXCEPT !.taken = @ + 1, !.printer = "returned"]
          ELSE cli' = [cli EXCEPT !.taken = @ + 1,
                         !.printed = Append(@, Percent(item[KeyDone]))]
    /\ UNCHANGED engineVars
    /\ UNCHANGED threadVars
    /\ UNCHANGED <<query, callbacks>>

\* Line 161: join() returns once run() has returned or has died of an
\* exception.
CliJoinFfmpeg ==
    /\ cli.main = "join_ffmpeg"
    /\ pc \in Crashes \cup {"done"}
    /\ cli' = [cli EXCEPT !.main = "join_printer"]
    /\ UNCHANGED engineVars
    /\ UNCHANGED threadVars
    /\ UNCHANGED <<query, callbacks>>

\* Line 162 and the end of the script: the printer has returned, the
\* program ends with status 0.
CliJoinPrinter ==
    /\ cli.main = "join_printer"
    /\ cli.printer = "returned"
    /\ cli' = [cli EXCEPT !.main = "exited", !.exit = Some(0)]
    /\ UNCHANGED engineVars
    /\ UNCHANGED threadVars
    /\ UNCHANGED <<query, callbacks>>

\* ------------------------------------------------- what the engine sent
\* The lines the thread has taken from the primary output channel.
Consumed == SubSeq(outWritten, 1, outRead)

IsKeyValue(line) == IndexFrom(line, "=", 1) # 0
IsTerminator(line) == IsKeyValue(line) /\ SplitOnce(line)[1] = KeyProgress

\* The completed blocks among lines, in emission order: each is the
\* mapping of the key/value lines since the previous terminator.
RECURSIVE BlocksFrom(_, _, _)
BlocksFrom(lines, i, open) ==
    IF i > Len(lines) THEN << >>
    ELSE IF ~IsKeyValue(lines[i]) THEN BlocksFrom(lines, i + 1, open)
    ELSE LET kv == SplitOnce(lines[i])
             map == [k \in DOMAIN open \cup {kv[1]} |->
                        IF k = kv[1] THEN kv[2] ELSE open[k]]
         IN IF IsTerminator(lines[i])
            THEN <<map>> \o BlocksFrom(lines, i + 1, << >>)
            ELSE BlocksFrom(lines, i + 1, map)

Blocks == BlocksFrom(Consumed, 1, << >>)

\* The block's time-elapsed value is a positive number.
Positive(map) ==
    /\ KeyOutTime \in DOMAIN map
    /\ map[KeyOutTime] \in {<<"500000">>}

NonPositive(map) ==
    /\ KeyOutTime \in DOMAIN map
    /\ map[KeyOutTime] \in {<<"0">>, <<"-500000">>}

\* Number of invocations of callback f for block b.
Invocations(f, b) ==
    Cardinality({i \in DOMAIN calls : calls[i].f = f /\ calls[i].block = b})

\* The thread in run() is neither inside process_info nor dead of an
\* exception: every block it has taken is handled.
Handled == pc \in {"read", "poll", "drain", "release", "done"}

\* The run is over: run() returned.
Finished == pc = "done"

\* ------------------------------------------------------------------ C1
\* C1: after the run has finished and the engine has exited, the terminal
\* error is present if and only if the engine's exit status is non-zero,
\* and it carries that exit status.
C1_TerminalErrorIffNonZeroExit ==
    (Finished /\ engine = "exited") =>
        /\ (ExceptionResult.error # None) <=> (Get(exitStatus) # 0)
        /\ ExceptionResult.error # None =>
               Get(ExceptionResult.error).exitcode = Get(exitStatus)

\* ------------------------------------------------------------------ C2
\* C2 as claimed: onInfo has been invoked exactly once for every
\* completed block the thread has handled, whatever its time-elapsed value.
C2_OnInfoOncePerBlock ==
    Handled => \A b \in DOMAIN Blocks : Invocations("info", b) = 1

\* C2 amended: onInfo is invoked at most once per completed block and only
\* for a block whose time-elapsed value is positive; a block with a zero or
\* negative value never triggers it, and every positive block the thread
\* has handled has triggered it exactly once.
C2_OnInfoOncePerPositiveBlock ==
    /\ \A i \in DOMAIN calls : calls[i].block \in DOMAIN Blocks
    /\ \A b \in DOMAIN Blocks :
          /\ Invocations("info", b) <= 1
          /\ Invocations("info", b) = 1 => Positive(Blocks[b])
          /\ (Handled /\ Positive(Blocks[b])) => Invocations("info", b) = 1

\* A block with a non-positive time was handled without onInfo and a
\* positive one was reported.
C2_Witness ==
    /\ Handled
    /\ \E b \in DOMAIN Blocks :
          NonPositive(Blocks[b]) /\ Invocations("info", b) = 0
    /\ \E b \in DOMAIN Blocks :
          Positive(Blocks[b]) /\ Invocations("info", b) = 1

\* ------------------------------------------------------------------ C3
\* C3: once the thread is no longer inside the handling of a block,
\* onProgress has been invoked exactly once for each completed block with
\* a positive time-elapsed value and never for any other completed block.
C3_OnProgressOncePerPositiveBlock ==
    pc # "duration" =>
        \A b \in DOMAIN Blocks :
            Invocations("progress", b) =
                (IF Positive(Blocks[b]) THEN 1 ELSE 0)

\* ------------------------------------------------------------------ C4
\* The engine is inside a write on a full pipe.
EngineBlockedOn(ch) == writing = ch /\ PipeLen(ch) >= PipeCap

\* The thread waits for data on a channel that is empty and still open,
\* or it reads nothing any more.
ThreadBlockedOn(ch) ==
    IF ch = "out" THEN pc = "read" /\ ~OutReady
    ELSE pc \in {"duration", "drain"} /\ ~ErrReady

ThreadNotReading == pc \in Crashes \cup {"release", "done"}

\* C4: the engine is never blocked writing to one channel while the
\* supervisor is blocked reading the other or is not reading at all.
C4_NoCrossChannelStall ==
    \A ch \in {"out", "err"} :
        ~(EngineBlockedOn(ch)
            /\ (ThreadBlockedOn(Other(ch)) \/ ThreadNotReading))


\* ------------------------------------------------------------------ C5
\* The diagnostic channel is at end of file and no duration is resolved
\* while the duration loop is reading it.
DurationAtEof == pc = "duration" /\ Len(ErrPipe) = 0 /\ ~errOpen

\* C5: a read of the duration loop that finds the diagnostic channel at
\* end of file ends the pending resolution (with an error): the loop does
\* not go round again.
C5_DurationReadAtEofEnds ==
    [][(DurationAtEof /\ threadVars' # threadVars) => pc' # "duration"]_vars

\* ------------------------------------------------------------------ C6
\* C6: after a finished run the diagnostic buffer, and the buffer carried
\* by the terminal error, is everything the engine wrote to its diagnostic
\* channel.
C6_BufferIsWholeDiagnosticStream ==
    Finished =>
        /\ Get(stderrBuf) = errWritten
        /\ ExceptionResult.error # None =>
               Get(ExceptionResult.error).stderr = errWritten

\* ------------------------------------------------------------------ C7
IsInfo(call) == call.f = "info"
InfoCalls == SelectSeq(calls, IsInfo)
PositiveBlocks == SelectSeq(Blocks, Positive)
Fields(map) == [k \in DOMAIN map \ {KeyDone} |-> map[k]]

\* C7: callbacks fire in the order in which the blocks complete: the
\* callbacks made so far are, pair by pair and in emission order, those of
\* the positive blocks taken from the channel, none reordered, none left
\* out except the block still being handled, and all callbacks of a block
\* come before any callback of a later block.
C7_CallbacksInEmissionOrder ==
    /\ \A i \in DOMAIN calls : \A j \in DOMAIN calls :
          i < j => calls[i].block <= calls[j].block
    /\ \A i \in DOMAIN calls :
          /\ calls[i].block \in DOMAIN Blocks
          /\ calls[i].f = (IF i % 2 = 1 THEN "progress" ELSE "info")
          /\ i % 2 = 1 => /\ i + 1 \in DOMAIN calls
                          /\ calls[i + 1].block = calls[i].block
          /\ i % 2 = 0 =>
                Fields(calls[i].map) = Blocks[calls[i].block]
    /\ Len(InfoCalls) <= Len(PositiveBlocks)
    /\ \A i \in DOMAIN InfoCalls :
          Fields(InfoCalls[i].map) = PositiveBlocks[i]
    /\ Len(InfoCalls) < Len(PositiveBlocks) =>
          /\ Len(PositiveBlocks) = Len(InfoCalls) + 1
          /\ Positive(Blocks[Len(Blocks)])
          /\ ~Handled

\* Two blocks were reported, the earlier one first.
C7_Witness ==
    /\ Len(calls) = 4
    /\ calls[1].block = 1
    /\ calls[2].block = 1
    /\ calls[3].block = 2
    /\ calls[4].block = 2

\* ------------------------------------------------------------------ C8
\* C8: when the drain loop takes a non-blank line without "=" from the
\* primary channel it treats the channel as closed: it does not raise and
\* goes on to capture the exit status.
C8_NoSeparatorClosesChannel ==
    [][(/\ pc = "read"
        /\ OutReady
        /\ OutLine # << >>
        /\ ~IsKeyValue(OutLine)
        /\ outRead' # outRead) => pc' = "poll"]_vars

\* ------------------------------------------------------------------ C9
Started == pc # "init"

\* C9 as claimed: a query of the terminal state made while the run has
\* not finished returns None; after the run it returns the error value
\* when the recorded exit status is non-zero and None otherwise.
C9_NoneWhileRunning ==
    [][(query' # query /\ query'.op = "exception" /\ Started) =>
          IF ~Finished \/ ~Truthy(exitcode)
          THEN query' = ReturnNone("exception")
          ELSE /\ query'.raised = ""
               /\ query'.error =
                     Some(FFMPEGError(Get(exitcode), Get(stderrBuf)))]_vars

\* C9 amended: a query of the terminal state made before the exit status
\* is recorded raises the I/O error; once it is recorded the query returns
\* None for a status of zero or None and the error value carrying the
\* recorded status and buffer for a non-zero one (raising while the
\* buffer is not stored yet).
C9_RaisesUntilExitRecorded ==
    [][(query' # query /\ query'.op = "exception") =>
          IF exitcode = Absent
          THEN query' = Raise("exception", "IOError")
          ELSE IF exitcode = None \/ exitcode = Some(0)
          THEN query' = ReturnNone("exception")
          ELSE IF stderrBuf = Absent
          THEN query'.raised # "" /\ query'.error = None
          ELSE /\ query'.raised = ""
               /\ query'.error =
                     Some(FFMPEGError(Get(exitcode), Get(stderrBuf)))]_vars

\* The terminal state was queried during the run and the query raised.
C9_Witness ==
    /\ query = Raise("exception", "IOError")
    /\ pc \in {"read", "duration", "poll"}
    /\ engine = "running"

\* ----------------------------------------------------------------- C10
\* C10: once the handle is released with no duration resolved, a query of
\* the input duration raises the I/O error, returns no value and leaves
\* the supervisor's state as it was.
C10_DurationQueryAfterReleaseRaises ==
    [][(/\ query' # query
        /\ query'.op = "input_duration"
        /\ ffmpeg = None
        /\ inputDuration = None) =>
          /\ query' = Raise("input_duration", "IOError")
          /\ UNCHANGED threadVars]_vars

\* The duration was queried after a run whose diagnostic output held no
\* duration line, and the query raised.
C10_Witness ==
    /\ query = Raise("input_duration", "IOError")
    /\ Finished
    /\ ffmpeg = None
    /\ inputDuration = None
    /\ errWritten # << >>

\* ----------------------------------------------------------------- C12
\* The main thread waits for the printer, the printer waits for a mapping,
\* and run(), which filled the queue, has returned: nothing can move.
CliStuck ==
    /\ pc = "done"
    /\ cli.main = "join_printer"
    /\ cli.printer = "get"
    /\ cli.taken = Len(Queue)

\* C12: the front end always terminates (it never ends up with every
\* thread waiting), and when the engine has exited with a non-zero status
\* it terminates with a non-zero status itself.
C12_CliTerminatesNonZeroOnFailure ==
    /\ ~CliStuck
    /\ (cli.main = "exited" /\ engine = "exited" /\ Get(exitStatus) # 0)
          => Get(cli.exit) # 0

\* ----------------------------------------------------------------- C11
\* C11: every ratio passed to onProgress, and every `done` entry passed to
\* onInfo, lies between 0 and 1 (0 and 100 hundredths).
C11_RatioWithinUnitInterval ==
    \A i \in DOMAIN calls :
        IF calls[i].f = "progress"
        THEN calls[i].ratio >= 0 /\ calls[i].ratio <= 100
        ELSE calls[i].map[KeyDone] >= 0 /\ calls[i].map[KeyDone] <= 100

\* ----------------------------------------------------------------- C19
\* The value the claim gives for a marker H:MM:SS.cc, in hundredths.
MarkerValue(text) ==
    Digits(<<text[1]>>) * 360000 + Digits(<<text[3]>>) * 6000
      + Digits(<<text[5]>>) * 100 + Digits(<<text[7]>>)

\* C19: once the duration loop has read a line with a captured duration
\* text, the conversion has not raised, and for a marker H:MM:SS.cc the
\* resolved duration is hours*3600 + minutes*60 + seconds + cc/100.
C19_DurationConversion ==
    (errRead >= 1 /\ Matches(errWritten[1])) =>
        /\ pc # "ValueError"
        /\ DurationMatch(errWritten[1]) \in MarkerTexts =>
              inputDuration = Some(MarkerValue(DurationMatch(errWritten[1])))

\* ----------------------------------------------------------------- C13
\* The latest completed block, which the thread holds while it waits for
\* the duration.
LastBlock == Blocks[Len(Blocks)]

\* The step reports the block that was waiting: one call of each callback,
\* for that block and with its fields.
ReportsLastBlock ==
    /\ Len(calls') = Len(calls) + 2
    /\ SubSeq(calls', 1, Len(calls)) = calls
    /\ calls'[Len(calls') - 1].f = "progress"
    /\ calls'[Len(calls')].f = "info"
    /\ calls'[Len(calls')].block = Len(Blocks)
    /\ [k \in DOMAIN calls'[Len(calls')].map \ {KeyDone} |->
           calls'[Len(calls')].map[k]] = LastBlock

\* C13: a ratio is reported only when the input duration is resolved; a
\* positive block taken before that is kept while the thread waits in the
\* duration loop, and the step on which the thread leaves the loop
\* resolves the duration and reports that block.
C13_BlockKeptUntilDurationResolves ==
    /\ [](/\ calls # << >> => inputDuration # None
          /\ pc = "duration" =>
                /\ inputDuration = None
                /\ Blocks # << >>
                /\ Positive(LastBlock)
                /\ info = LastBlock
                /\ Invocations("info", Len(Blocks)) = 0)
    /\ [][/\ (inputDuration = None /\ inputDuration' # None) =>
                pc = "duration"
          /\ (pc = "duration" /\ pc' # "duration") =>
                inputDuration' # None /\ ReportsLastBlock
         ]_vars

\* ----------------------------------------------------------------- C14
\* The value of the duration line at position k of the diagnostic stream,
\* the first one that carries a duration.
IsFirstDurationLine(k) ==
    /\ k \in DOMAIN errWritten
    /\ errWritten[k].dur # << >>
    /\ \A j \in 1..(k - 1) : errWritten[j].dur = << >>

C15_ReleasedOnlyAfterExit ==
    ffmpeg = None =>
        /\ exitcode # Absent
        /\ stderrBuf # Absent
        /\ Len(ErrPipe) = 0
        /\ ~errOpen
        /\ engine = "exited"

\* ----------------------------------------------------------------- C16
\* The key/value pairs of the lines taken since the last terminator.
RECURSIVE OpenFrom(_, _, _)
OpenFrom(lines, i, open) ==
    IF i > Len(lines) THEN open
    ELSE IF ~IsKeyValue(lines[i]) THEN OpenFrom(lines, i + 1, open)
    ELSE IF IsTerminator(lines[i]) THEN OpenFrom(lines, i + 1, << >>)
    ELSE LET kv == SplitOnce(lines[i])
         IN OpenFrom(lines, i + 1,
                [k \in DOMAIN open \cup {kv[1]} |->
                    IF k = kv[1] THEN kv[2] ELSE open[k]])

\* C16: a mapping passed to onInfo holds exactly the keys and values of
\* the lines of its own block (the last value of a repeated key) and the
\* entry `done`; between blocks the thread holds only the pairs taken
\* since the last terminator, nothing of a block already reported.
C16_MappingIsExactlyTheBlock ==
    /\ \A i \in DOMAIN calls :
          calls[i].f = "info" =>
             /\ DOMAIN calls[i].map =
                   DOMAIN Blocks[calls[i].block] \cup {KeyDone}
             /\ \A k \in DOMAIN Blocks[calls[i].block] :
                   calls[i].map[k] = Blocks[calls[i].block][k]
    /\ pc = "read" => info = OpenFrom(Consumed, 1, << >>)

\* A block that repeats its time key was reported with the later value,
\* and the thread holds nothing of it.
C16_Witness ==
    /\ Len(outWritten) >= 3
    /\ outWritten[1] = KVLine("out_time_ms", "0")
    /\ outWritten[2] = KVLine("out_time_ms", "500000")
    /\ outRead = 3
    /\ Len(calls) = 2
    /\ calls[2].map[KeyOutTime] = <<"500000">>
    /\ pc = "read"
    /\ DOMAIN info = {}

\* ----------------------------------------------------------------- C17
AfterLoop == {"poll", "drain", "release", "done"}

\* C17: reading a blank line or end of file ends the drain loop without a
\* callback and takes the thread to the capture of the exit status; from
\* then on no line is taken from the primary channel, no callback is
\* invoked, and the pairs of an unterminated block are never reported.
C17_DecodingStopsAtClosure ==
    [][/\ (pc = "read" /\ OutReady /\ OutLine = << >>
             /\ threadVars' # threadVars) =>
             pc' = "poll" /\ calls' = calls /\ info' = info
       /\ pc \in AfterLoop =>
             /\ pc' \in AfterLoop
             /\ outRead' = outRead
             /\ calls' = calls
      ]_vars

\* The run ended after a blank line, holding the pairs of a block that was
\* never terminated, with a line left in the pipe and nothing reported.
C17_Witness ==
    /\ pc = "done"
    /\ DOMAIN info # {}
    /\ Positive(info)
    /\ Len(outWritten) > outRead
    /\ outWritten[outRead] = << >>
    /\ calls = << >>

\* ----------------------------------------------------------------- C18
\* C18: the division by the input duration never fails, and every ratio
\* reported for a block with time t satisfies ratio * d = t / 1000000
\* (d in hundredths of a second, the ratio in hundredths).
C18_RatioIsTimeOverDuration ==
    /\ pc # "ZeroDivisionError"
    /\ \A i \in DOMAIN calls :
          calls[i].f = "progress" =>
             calls[i].ratio * Get(inputDuration) =
                ((Float(Blocks[calls[i].block][KeyOutTime]) * 100)
                    \div Micro) * 100

\* ----------------------------------------------------------------- C20
\* C20: every call of onInfo directly follows the call of onProgress for
\* the same block, and its mapping holds the keys `progress` and
\* `out_time_ms` and an entry `done` equal to the ratio onProgress got.
C20_ProgressThenInfoWithDone ==
    \A i \in DOMAIN calls :
        calls[i].f = "info" =>
           /\ i > 1
           /\ calls[i - 1].f = "progress"
           /\ calls[i - 1].block = calls[i].block
           /\ {KeyProgress, KeyOutTime, KeyDone} \subseteq DOMAIN calls[i].map
           /\ calls[i].map[KeyDone] = calls[i - 1].ratio

\* A block was reported: onProgress got the ratio 0.5 and onInfo the
\* mapping with done = 0.5.
C20_Witness ==
    /\ Len(calls) >= 2
    /\ calls[1].f = "progress"
    /\ calls[1].ratio = 50
    /\ calls[2].f = "info"
    /\ calls[2].map[KeyDone] = 50

Next ==
    \/ Start
    \/ \E ch \in {"out", "err"} : EngineBlock(ch)
    \/ \E line \in OutLines : EngineWriteOut(line)
    \/ \E line \in ErrLines : EngineWriteErr(line)
    \/ EngineCloseOut
    \/ EngineCloseErr
    \/ \E status \in 0..MaxExit : EngineExit(status)
    \/ ReadClosed
    \/ ReadNoSeparator
    \/ ReadField
    \/ ReadTerminator
    \/ DurationSkip
    \/ DurationSpin
    \/ DurationFound
    \/ RecordExit
    \/ DrainSome
    \/ DrainEnd
    \/ Release
    \/ QueryException
    \/ QueryDuration

Spec == Init /\ [][Next]_vars

CliNext ==
    \/ CliStartPrinter
    \/ Start
    \/ \E ch \in {"out", "err"} : EngineBlock(ch)
    \/ \E line \in OutLines : EngineWriteOut(line)
    \/ \E line \in ErrLines : EngineWriteErr(line)
    \/ EngineCloseOut
    \/ EngineCloseErr
    \/ \E status \in 0..MaxExit : EngineExit(status)
    \/ ReadClosed
    \/ ReadNoSeparator
    \/ ReadField
    \/ ReadTerminator
    \/ DurationSkip
    \/ DurationSpin
    \/ DurationFound
    \/ RecordExit
    \/ DrainSome
    \/ DrainEnd
    \/ Release
    \/ CliPrinterGet
    \/ CliJoinFfmpeg
    \/ CliJoinPrinter

CliSpec == CliInit /\ [][CliNext]_vars

\* ------------------------------------------------ duration conversion
\* The thread has taken a block with a positive time and entered the
\* input_duration loop; one diagnostic line with a duration text waits in
\* the pipe.
ConvInit ==
    /\ engine = "running"
    /\ exitStatus = None
    /\ outOpen = TRUE
    /\ errOpen = TRUE
    /\ writing = "none"
    /\ outWritten = <<KVLine("out_time_ms", "500000"),
                      KVLine("progress", "continue")>>
    /\ \E text \in MarkerTexts \cup OtherTexts :
          errWritten = <<[dur |-> text]>>
    /\ outRead = 2
    /\ errRead = 0
    /\ pc = "duration"
    /\ ffmpeg = Popen
    /\ info = Put(Put(EmptyInfo, KeyOutTime, <<"500000">>),
                  KeyProgress, <<"continue">>)
    /\ inputDuration = None
    /\ exitcode = Absent
    /\ stderrBuf = Absent
    /\ drained = << >>
    /\ calls = << >>
    /\ spins = 0
    /\ query = NoQuery
    /\ callbacks = [progress_f |-> TRUE, info_f |-> TRUE]
    /\ cli = NoCli

ConvNext ==
    \/ DurationFound
    \/ QueryDuration

ConvSpec == ConvInit /\ [][ConvNext]_vars

====
